---- MODULE Spec2Model ----
(***************************************************************************)
(* A model of casautils.py: correctForPM(inms,outms,field,years,newtime,   *)
(* updatepm) and updatePM(inms,source).                                    *)
(*                                                                         *)
(* Number representation.                                                  *)
(*  - Python floats that carry seconds or years are fixed-point with one   *)
(*    binary digit: the integer n stands for n/2.  A time (MJD seconds) is  *)
(*    too large for one TLC integer and is the record [hi, lo] standing    *)
(*    for hi*10^6 seconds + lo/2 seconds.                                  *)
(*  - The seconds array (np.zeros_like(fieldid), an integer array) holds   *)
(*    whole seconds.                                                       *)
(*  - Angles are whole multiples of pi/3 rad, where 1/cos is an integer    *)
(*    (1, 2, -2, -1, -2, 2): directions and pm*seconds stay on that grid   *)
(*    and the arithmetic of lines 101-102 is exact.  Stored proper motion  *)
(*    is in (pi/3 rad)/s.                                                  *)
(*  - A catalog proper motion [masyr |-> n] stands for                     *)
(*    n * (1000*ARCSEC_PER_RAD*SECONDS_PER_YEAR) mas/yr in the same angle  *)
(*    unit, so that the division of line 125 is exact.                     *)
(***************************************************************************)
EXTENDS Integers, Sequences, FiniteSets, TLC

VARIABLES
    fs,           \* the file system: path -> dataset container, or NoFile
    inms, outms, field, years, newtime, updatepm,   \* the call's arguments
    simbad,       \* what Simbad.query_object answers for this call
    pc,           \* position in correctForPM
    error,        \* the line that raised, when pc = "failed"
    fieldid, sources, times, properMotion, seconds, i, foundSource,  \* locals
    printed,      \* the messages printed so far
    input0,       \* the input container as it was before the call
    dup           \* the output container right after shutil.copytree

vars == <<fs, inms, outms, field, years, newtime, updatepm, simbad, pc, error,
          fieldid, sources, times, properMotion, seconds, i, foundSource,
          printed, input0, dup>>

\* ---------------------------------------------------------------- constants

SECONDS_PER_YEAR == 31556925

\* j2000 = 4453401600 (line 88), as [hi, lo]: 4453 * 10^6 s + 803200/2 s.
j2000 == [hi |-> 4453, lo |-> 2 * 401600]

\* Number of rows of the FIELD table of the datasets explored.
NFields == 2

NoFile == [kind |-> "NoFile"]
None == [kind |-> "NoneType"]

\* ------------------------------------------------------------- arithmetic

\* a - b for two times, as a fixed-point float (halves of a second).
TimeSub(a, b) == (a.hi - b.hi) * 2000000 + (a.lo - b.lo)

\* The time t seconds (fixed-point) after j2000.
AfterJ2000(t) == [hi |-> j2000.hi, lo |-> j2000.lo + t]

\* Storing a float into an int64 array element: the C cast, truncating toward 0.
IntCast(x) == IF x >= 0 THEN x \div 2 ELSE -((-x) \div 2)

\* 1/np.cos(dec) for dec a whole multiple of pi/3.
InvCos(dec) ==
    CASE dec % 6 = 0 -> 1
      [] dec % 6 \in {1, 5} -> 2
      [] dec % 6 \in {2, 4} -> -2
      [] dec % 6 = 3 -> -1

\* ------------------------------------------------------------- the dataset

FieldRows == 0 .. NFields - 1
SourceRows == 0 .. 2

\* The three direction columns, in the order of line 99.
DirectionsWithoutDelay == <<"REFERENCE_DIR", "PHASE_DIR">>
Directions == <<"REFERENCE_DIR", "PHASE_DIR", "DELAY_DIR">>

\* Recorded times of the fields explored: 0.5 s and 4 s after j2000.
TA == AfterJ2000(1)
TC == AfterJ2000(8)

\* A measurement set: its FIELD and SOURCE tables, columns as row -> value.
\* Row 0 of FIELD is named "hr8799"; nameV names the other rows; src0 and
\* srcRest are the SOURCE_ID of row 0 and of the others (7 is no SOURCE row);
\* timeV picks which rows carry TA; dirV = "differ" gives the three roles of a
\* field different stored directions.
Dataset(nameV, src0, srcRest, timeV, dirV) ==
    [kind |-> "ms",
     FIELD |->
       [NAME |-> [r \in FieldRows |-> IF r = 0 THEN "hr8799" ELSE nameV],
        SOURCE_ID |-> [r \in FieldRows |-> IF r = 0 THEN src0 ELSE srcRest],
        TIME |-> [r \in FieldRows |-> IF (r + timeV) % 2 = 0 THEN TA ELSE TC],
        REFERENCE_DIR |-> [r \in FieldRows |-> <<2, r>>],
        PHASE_DIR |-> [r \in FieldRows |->
                         IF dirV = "differ" THEN <<2, r + 1>> ELSE <<2, r>>],
        DELAY_DIR |-> [r \in FieldRows |->
                         IF dirV = "differ" THEN <<5, r>> ELSE <<2, r>>]],
     SOURCE |->
       [NAME |-> [r \in SourceRows |-> IF r = 2 THEN "other" ELSE "hr8799"],
        SOURCE_ID |-> [r \in SourceRows |-> IF r = 2 THEN 1 ELSE 0],
        PROPER_MOTION |-> [r \in SourceRows |->
                             CASE r = 0 -> <<1, 1>>
                               [] r = 1 -> <<2, -1>>
                               [] r = 2 -> <<-1, 2>>]]]

Datasets ==
    {Dataset(nameV, src0, srcRest, timeV, dirV) :
        nameV \in {"hr8799", "other"}, src0 \in {0, 7}, srcRest \in {0, 1, 7},
        timeV \in {0, 1}, dirV \in {"same", "differ"}}

\* A container left at the output path by an earlier run.
Stale == Dataset("other", 1, 1, 0, "same")

\* ------------------------------------------------------------ the arguments

Paths == {"obs.ms", "shifted.ms"}

\* field: a name, an index (NFields is out of range), a list of indices, and
\* values that are none of these: a float, None, a nested list of indices.
FieldArgs ==
    {[kind |-> "str", val |-> n] : n \in {"hr8799", "nosuch"}}
    \cup {[kind |-> "int", val |-> n] : n \in 0 .. NFields}
    \cup {[kind |-> "list", val |-> <<a, b>>] : a \in FieldRows, b \in FieldRows}
    \cup {[kind |-> "nested", val |-> << <<0, 1>> >>],
          [kind |-> "float", val |-> 3],
          None}

\* years (fixed-point): 0, 0.5, 1 and -2 years.
YearsArgs == {0, 1, 2, -4}

\* newtime: unset, a float (10 s after and 2 s before j2000), or a Python int.
NewtimeArgs ==
    {None,
     [kind |-> "float", val |-> AfterJ2000(20)],
     [kind |-> "float", val |-> AfterJ2000(-4)],
     [kind |-> "int", val |-> AfterJ2000(20)]}

\* What Simbad answers: None, or a table with PMRA and PMDEC.
SimbadHit == [kind |-> "table", PMRA |-> [masyr |-> 3], PMDEC |-> [masyr |-> -2]]

Init ==
    /\ inms = "obs.ms"
    /\ outms \in Paths
    /\ \E d \in Datasets, o \in {NoFile, Stale} :
          fs = [p \in Paths |-> IF p = inms THEN d ELSE o]
    /\ field \in FieldArgs
    /\ newtime \in NewtimeArgs
    /\ years \in IF newtime.kind = "float" THEN {0, 2} ELSE YearsArgs
    /\ updatepm \in BOOLEAN
    \* Simbad resolves names; it is asked only when updatepm is set.
    /\ simbad \in IF updatepm /\ field.kind = "str" THEN {None, SimbadHit} ELSE {None}
    /\ pc = "copytree"
    /\ error = ""
    /\ fieldid = <<>>
    /\ sources = <<>>
    /\ times = <<>>
    /\ properMotion = <<0, 0>>
    /\ seconds = <<>>
    /\ i = 0
    /\ foundSource = 0
    /\ printed = {}
    /\ input0 = fs[inms]
    /\ dup = NoFile

locals == <<fieldid, sources, times, properMotion, seconds, i, foundSource>>
args == <<inms, outms, field, years, newtime, updatepm, simbad, input0>>

\* ------------------------------------------------------------- correctForPM

\* Lines 56-57: if os.path.exists(outms): shutil.rmtree(outms);
\* shutil.copytree(inms, outms).  copytree raises when inms is gone.
Removed(f, path) == IF f[path] # NoFile THEN [f EXCEPT ![path] = NoFile] ELSE f

Duplicate ==
    /\ pc = "copytree"
    /\ LET afterRm == Removed(fs, outms) IN
       IF afterRm[inms] = NoFile
       THEN /\ fs' = afterRm
            /\ pc' = "failed"
            /\ error' = "copytree:57"
            /\ dup' = dup
       ELSE /\ fs' = [afterRm EXCEPT ![outms] = afterRm[inms]]
            /\ dup' = afterRm[inms]
            /\ pc' = IF updatepm THEN "updatePM" ELSE "select"
            /\ error' = error
    /\ UNCHANGED <<args, locals, printed>>

\* ------------------------------------------------------------------ updatePM

\* Line 125: [PMRA, PMDEC] / (1000*ARCSEC_PER_RAD*SECONDS_PER_YEAR), mas/yr to
\* rad/s: the catalog value n * (1000*ARCSEC_PER_RAD*SECONDS_PER_YEAR) becomes n.
ToRadPerSec(result_table) == <<result_table.PMRA.masyr, result_table.PMDEC.masyr>>

\* Line 128: np.where(names == source)[0]: the SOURCE rows whose NAME is the
\* queried name (no row when source is not a string).
WhereNameFirstOnly(names, source) ==
    IF source.kind = "str" /\ \E r \in DOMAIN names : names[r] = source.val
    THEN {CHOOSE r \in DOMAIN names :
             /\ names[r] = source.val
             /\ \A q \in DOMAIN names : names[q] = source.val => r <= q}
    ELSE {}
WhereName(names, source) ==
    IF source.kind = "str" THEN {r \in DOMAIN names : names[r] = source.val} ELSE {}

\* Lines 132-133: for s in sid: tb.putcell('PROPER_MOTION', s, newpm), s being
\* the array of all the matching rows.
PutProperMotion(ms, sid, newpm) ==
    [ms EXCEPT !.SOURCE.PROPER_MOTION =
        [r \in SourceRows |-> IF r \in sid THEN newpm ELSE @[r]]]

\* Lines 119-135: the container updatePM leaves.  With no catalog match
\* (result_table is None) nothing is opened or written.
SyncedZeroOnMiss(ms, source, result_table) ==
    IF result_table = None
    THEN PutProperMotion(ms, WhereName(ms.SOURCE.NAME, source), <<0, 0>>)
    ELSE PutProperMotion(ms, WhereName(ms.SOURCE.NAME, source),
                         ToRadPerSec(result_table))
Synced(ms, source, result_table) ==
    IF result_table = None THEN ms
    ELSE PutProperMotion(ms, WhereName(ms.SOURCE.NAME, source),
                         ToRadPerSec(result_table))

\* Line 58 and lines 116-135: updatePM(outms, field).  With a match and no
\* SOURCE row of that name, line 129 (sid[0][0]) raises before any putcell.
updatePM ==
    /\ pc = "updatePM"
    /\ IF simbad # None /\ WhereName(fs[outms].SOURCE.NAME, field) = {}
       THEN /\ pc' = "failed"
            /\ error' = "updatePM:129"
            /\ printed' = printed \cup {"Proper motion found in Simbad"}
            /\ fs' = fs
       ELSE /\ fs' = [fs EXCEPT ![outms] = Synced(@, field, simbad)]
            /\ printed' = printed \cup
                  (IF simbad = None THEN {"not found"}
                   ELSE {"Proper motion found in Simbad", "Proper motion updated"})
            /\ pc' = "select"
            /\ error' = error
    /\ UNCHANGED <<args, locals, dup>>

\* ------------------------------------------------------------ field selection

RECURSIVE Ascending(_)
\* np.where(...)[0]: the rows of a set, in table order.
Ascending(S) ==
    IF S = {} THEN <<>>
    ELSE LET m == CHOOSE x \in S : \A y \in S : x <= y
         IN <<m>> \o Ascending(S \ {m})

\* Lines 61-67: fieldid from field.  A float or None becomes a 0-d array that
\* is no integer array; a nested list becomes a 2-d integer array.
FieldId(names, f) ==
    CASE f.kind = "str" -> Ascending({r \in DOMAIN names : names[r] = f.val})
      [] f.kind = "int" -> <<f.val>>
      [] f.kind \in {"list", "nested"} -> f.val
      [] OTHER -> <<>>

\* The integers an index array holds (its rows flattened).
Indices(f, fid) ==
    IF f.kind = "nested"
    THEN UNION {{fid[k][m] : m \in 1 .. Len(fid[k])} : k \in 1 .. Len(fid)}
    ELSE {fid[k] : k \in 1 .. Len(fid)}

\* col[fieldid]: numpy's integer-array indexing, which keeps the index's shape.
Take(f, col, fid) ==
    IF f.kind = "nested"
    THEN [k \in 1 .. Len(fid) |-> [m \in 1 .. Len(fid[k]) |-> col[fid[k][m]]]]
    ELSE [k \in 1 .. Len(fid) |-> col[fid[k]]]

\* Lines 60-70.  Line 68 raises IndexError when fieldid is no integer array or
\* holds an index outside the table.
SelectField ==
    /\ pc = "select"
    /\ LET FIELD == fs[outms].FIELD
           fid == FieldId(FIELD.NAME, field) IN
       IF \/ field.kind \notin {"str", "int", "list", "nested"}
          \/ \E n \in Indices(field, fid) : n \notin DOMAIN FIELD.NAME
       THEN /\ pc' = "failed"
            /\ error' = "select:68"
            /\ fieldid' = fid
            /\ UNCHANGED <<sources, times>>
       ELSE /\ fieldid' = fid
            /\ sources' = Take(field, FIELD.SOURCE_ID, fid)
            /\ times' = Take(field, FIELD.TIME, fid)
            /\ pc' = "lookup"
            /\ error' = error
    /\ UNCHANGED <<fs, args, properMotion, seconds, i, foundSource, printed, dup>>

\* --------------------------------------------------------- source lookup

\* Line 74: np.where(sourceids == sid)[0], the SOURCE rows with that SOURCE_ID.
SourceMatches(sourceids, sid) == {r \in DOMAIN sourceids : sourceids[r] = sid}

\* Line 74: the [0] of it, the first such row.  The code has no default row.
FirstInstOrRowZero(sourceids, sid) ==
    IF SourceMatches(sourceids, sid) = {} THEN {0}
    ELSE {CHOOSE r \in SourceMatches(sourceids, sid) :
             \A q \in SourceMatches(sourceids, sid) : r <= q}
FirstInst(sourceids, sid) ==
    IF SourceMatches(sourceids, sid) = {} THEN {}
    ELSE {CHOOSE r \in SourceMatches(sourceids, sid) :
             \A q \in SourceMatches(sourceids, sid) : r <= q}

\* Lines 72-76.  Line 74 raises when sources is empty (sources[0]), when
\* sources[0] is itself an array of another length than the SOURCE table
\* (fieldid 2-d: a row of two against three rows), and when no SOURCE row has
\* the SOURCE_ID of the first selected field.
SourceMotionLookup ==
    /\ pc = "lookup"
    /\ LET SOURCE == fs[outms].SOURCE IN
       IF Len(sources) = 0 \/ field.kind = "nested"
       THEN /\ pc' = "failed"
            /\ error' = "lookup:74"
            /\ properMotion' = properMotion
       ELSE LET firstinst == FirstInst(SOURCE.SOURCE_ID, sources[1]) IN
            IF firstinst = {}
            THEN /\ pc' = "failed"
                 /\ error' = "lookup:74"
                 /\ properMotion' = properMotion
            ELSE /\ properMotion' =
                      SOURCE.PROPER_MOTION[CHOOSE r \in firstinst : TRUE]
                 /\ pc' = "epoch"
                 /\ error' = error
    /\ UNCHANGED <<fs, args, fieldid, sources, times, seconds, i, foundSource,
                   printed, dup>>

\* ------------------------------------------------------------ elapsed time

\* Lines 79-93, for one selected field with recorded time timestamp: the
\* float computed, before it is stored into the integer array seconds.
Elapsed(nt, yrs, timestamp) ==
    IF nt.kind = "float" THEN TimeSub(nt.val, timestamp)
    ELSE IF yrs = 0 THEN TimeSub(timestamp, j2000)
    ELSE yrs * SECONDS_PER_YEAR

\* Lines 78-93: seconds = np.zeros_like(fieldid), an integer array, filled
\* with the elapsed time of each selected field.
EpochResolve ==
    /\ pc = "epoch"
    /\ seconds' = [k \in 1 .. Len(fieldid) |->
                      IntCast(Elapsed(newtime, years, times[k]))]
    /\ foundSource' = 0
    /\ i' = 0
    /\ pc' = "update"
    /\ UNCHANGED <<fs, args, fieldid, sources, times, properMotion, error,
                   printed, dup>>

\* --------------------------------------------------------- direction update

\* Lines 101-103: new_dec first, then new_ra with the cosine of new_dec.
NewDirection(direction, pm, t) ==
    LET new_dec == direction[2] + pm[2] * t
        new_ra == direction[1] + pm[1] * t * InvCos(new_dec)
    IN <<new_ra, new_dec>>

RECURSIVE PutDirections(_, _, _, _, _)
\* Lines 99-104: getcell, the new direction, putcell, for the first n columns
\* of Directions.
PutDirections(FIELD, n, j, pm, t) ==
    IF n = 0 THEN FIELD
    ELSE LET direct == Directions[n]
             before == PutDirections(FIELD, n - 1, j, pm, t)
         IN [before EXCEPT ![direct][j] = NewDirection(@, pm, t)]

\* Lines 97-105: one pass of the loop over fieldid.
UpdateDirections ==
    /\ pc = "update"
    /\ i < Len(fieldid)
    /\ LET j == fieldid[i + 1] IN
       fs' = [fs EXCEPT ![outms].FIELD =
                 PutDirections(@, Len(Directions), j, properMotion, seconds[i + 1])]
    /\ printed' = printed \cup {"Calculating new direction"}
    /\ foundSource' = 1
    /\ i' = i + 1
    /\ UNCHANGED <<args, fieldid, sources, times, properMotion, seconds, pc,
                   error, dup>>

\* Lines 106-109: the loop is over; tb.close(), the report, return.
Finish ==
    /\ pc = "update"
    /\ i = Len(fieldid)
    /\ printed' = IF foundSource = 0
                  THEN printed \cup {"Did not find source"} ELSE printed
    /\ pc' = "done"
    /\ UNCHANGED <<fs, args, locals, error, dup>>

Next ==
    \/ Duplicate
    \/ updatePM
    \/ SelectField
    \/ SourceMotionLookup
    \/ EpochResolve
    \/ UpdateDirections
    \/ Finish

Spec == Init /\ [][Next]_vars

\* ------------------------------------------------------------- the claims

\* The output container, and whether the duplication has happened.
Out == fs[outms]
Duplicated == dup # NoFile
PastSync == Duplicated /\ pc \notin {"copytree", "updatePM"}
PastLookup == pc \in {"epoch", "update", "done"}
PastEpoch == pc \in {"update", "done"}
RoleSet == {"REFERENCE_DIR", "PHASE_DIR", "DELAY_DIR"}

\* new - old of one direction cell of the output, against the fresh duplicate.
Delta(role, j) == <<Out.FIELD[role][j][1] - dup.FIELD[role][j][1],
                    Out.FIELD[role][j][2] - dup.FIELD[role][j][2]>>

\* The first SOURCE row of the duplicate with SOURCE_ID sid (sid must exist).
FirstRowOf(sid) ==
    CHOOSE r \in SourceRows :
       /\ dup.SOURCE.SOURCE_ID[r] = sid
       /\ \A q \in SourceRows : dup.SOURCE.SOURCE_ID[q] = sid => r <= q

\* C1: a field name that equals no row of FIELD's NAME column makes
\* correctForPM complete normally (once the requested sync has returned),
\* report "Did not find source" and leave the direction columns as duplicated.
C1_NoMatchCompletes ==
    (/\ Duplicated
     /\ PastSync
     /\ error # "updatePM:129"
     /\ field.kind = "str"
     /\ \A r \in FieldRows : dup.FIELD.NAME[r] # field.val)
    => /\ pc # "failed"
       /\ Out.FIELD = dup.FIELD
       /\ pc = "done" => "Did not find source" \in printed

\* C2: with a target epoch E supplied, the elapsed time of every selected
\* field with recorded time T is exactly E - T, whatever E and years are.
C2_ExplicitEpochElapsed ==
    (PastEpoch /\ newtime.kind # "NoneType")
    => \A k \in 1 .. Len(fieldid) :
          2 * seconds[k] = TimeSub(newtime.val, times[k])

\* C3: with no target epoch, the elapsed time is years * 31556925 for every
\* selected field when years is non-zero, and T - 4453401600 when it is zero.
C3_OffsetAndDefaultElapsed ==
    (PastEpoch /\ newtime.kind = "NoneType")
    => \A k \in 1 .. Len(fieldid) :
          2 * seconds[k] = IF years # 0 THEN years * SECONDS_PER_YEAR
                           ELSE TimeSub(times[k], j2000)

\* C4 as stated: for every field the coordinate deltas (new - old, ra and
\* dec) are identical across the three roles, whatever directions are stored.
C4_DeltasIdentical ==
    Duplicated /\ Out # NoFile
    => \A j \in FieldRows : \A a \in RoleSet, b \in RoleSet :
          Delta(a, j) = Delta(b, j)

\* C4 amended: for every field the declination delta is identical across the
\* three roles, and the ra delta is identical across the roles that hold the
\* same stored declination.
C4_DeltasIdenticalForEqualDec ==
    Duplicated /\ Out # NoFile
    => \A j \in FieldRows : \A a \in RoleSet, b \in RoleSet :
          /\ Delta(a, j)[2] = Delta(b, j)[2]
          /\ dup.FIELD[a][j][2] = dup.FIELD[b][j][2]
                => Delta(a, j)[1] = Delta(b, j)[1]

\* C4's case: a run that ended, having moved a field whose roles hold
\* different declinations.
C4_Witness ==
    /\ pc = "done"
    /\ \E j \in FieldRows :
          /\ dup.FIELD.PHASE_DIR[j][2] # dup.FIELD.REFERENCE_DIR[j][2]
          /\ Delta("REFERENCE_DIR", j)[1] # 0
          /\ Delta("REFERENCE_DIR", j)[2] # 0
          /\ Delta("DELAY_DIR", j) = Delta("REFERENCE_DIR", j)

\* C5: with the refresh requested and no catalog match, updatePM writes
\* nothing (every SOURCE row keeps its PROPER_MOTION), the pipeline goes on
\* past the sync, and the lookup and the direction update use the stored value.
C5_CatalogMissPreserves ==
    (updatepm /\ simbad = None /\ PastSync)
    => /\ Out.SOURCE = dup.SOURCE
       /\ "not found" \in printed
       /\ error # "updatePM:129"
       /\ (PastLookup =>
             properMotion = dup.SOURCE.PROPER_MOTION[FirstRowOf(sources[1])])
       /\ (pc = "update" /\ i = 1 =>
             \A role \in RoleSet :
                Out.FIELD[role][fieldid[1]] =
                   NewDirection(dup.FIELD[role][fieldid[1]],
                                dup.SOURCE.PROPER_MOTION[FirstRowOf(sources[1])],
                                seconds[1]))

\* C5's case: a refresh that found nothing, and the run completed with a
\* direction moved.
C5_Witness ==
    /\ updatepm /\ simbad = None /\ pc = "done"
    /\ field.kind = "str"
    /\ \E j \in FieldRows : Delta("PHASE_DIR", j) # <<0, 0>>

\* C6 as stated: when the source identifier of any selected field is missing
\* from SOURCE's SOURCE_ID column, correctForPM never gets past the lookup
\* and no direction has been written.
C6_AnyDanglingSourceAborts ==
    (/\ pc \in {"lookup", "epoch", "update", "done", "failed"}
     /\ field.kind \in {"str", "int", "list"}
     /\ \E k \in 1 .. Len(sources) :
           \A r \in SourceRows : dup.SOURCE.SOURCE_ID[r] # sources[k])
    => /\ ~PastLookup
       /\ Out.FIELD = dup.FIELD

\* C6 amended: when the source identifier of the first selected field is
\* missing from SOURCE's SOURCE_ID column, correctForPM fails at the lookup
\* and no direction has been written.
C6_FirstDanglingSourceAborts ==
    (/\ pc \in {"epoch", "update", "done", "failed"}
     /\ error # "select:68"
     /\ field.kind \in {"str", "int", "list"}
     /\ Len(sources) > 0
     /\ \A r \in SourceRows : dup.SOURCE.SOURCE_ID[r] # sources[1])
    => /\ pc = "failed"
       /\ error = "lookup:74"
       /\ Out.FIELD = dup.FIELD

\* C6's case: the lookup failed on the missing source of the first of two
\* selected fields.
C6_Witness ==
    /\ pc = "failed" /\ error = "lookup:74"
    /\ field.kind = "list"
    /\ Len(sources) = 2
    /\ sources[1] = 7

\* C7: with the refresh requested and a catalog match, once the sync has
\* returned every SOURCE row named as queried holds the catalog value in
\* internal units, and the lookup and the direction update of a field of that
\* source use it, not the value stored before.
C7_SyncBeforeLookup ==
    (updatepm /\ simbad # None /\ PastSync /\ error # "updatePM:129")
    => LET newpm == <<simbad.PMRA.masyr, simbad.PMDEC.masyr>> IN
       /\ \A r \in SourceRows :
             Out.SOURCE.NAME[r] = field.val => Out.SOURCE.PROPER_MOTION[r] = newpm
       /\ \A r \in SourceRows :
             Out.SOURCE.NAME[r] # field.val
                => Out.SOURCE.PROPER_MOTION[r] = dup.SOURCE.PROPER_MOTION[r]
       /\ (PastLookup /\ dup.SOURCE.NAME[FirstRowOf(sources[1])] = field.val
             => /\ properMotion = newpm
                /\ properMotion # dup.SOURCE.PROPER_MOTION[FirstRowOf(sources[1])]
                /\ (pc = "update" /\ i = 1 =>
                      \A role \in RoleSet :
                         Out.FIELD[role][fieldid[1]] =
                            NewDirection(dup.FIELD[role][fieldid[1]], newpm,
                                         seconds[1])))

\* C7's case: a refresh that matched, and the first field of that source
\* moved by the refreshed proper motion.
C7_Witness ==
    /\ updatepm /\ simbad # None
    /\ pc = "update" /\ i = 1
    /\ dup.SOURCE.NAME[FirstRowOf(sources[1])] = field.val
    /\ properMotion = <<3, -2>>
    /\ Delta("REFERENCE_DIR", fieldid[1])[2] # 0

\* C8: the direction written for a role is new_dec = dec + pmdec * t and
\* new_ra = ra + pmra * t / cos(new_dec), t being the exact elapsed time of
\* the field (doubled here, t being in halves of a second).
C8_ExactDirection ==
    (pc = "update" /\ i = 1)
    => LET j == fieldid[1]
           t == Elapsed(newtime, years, times[1]) IN
       \A role \in RoleSet :
          /\ 2 * Out.FIELD[role][j][2] =
                2 * dup.FIELD[role][j][2] + properMotion[2] * t
          /\ 2 * Out.FIELD[role][j][1] =
                2 * dup.FIELD[role][j][1]
                   + properMotion[1] * t * InvCos(Out.FIELD[role][j][2])

\* C9: a field that is neither a name, an integer nor a collection of
\* integers makes correctForPM fail at the field selection: the source lookup
\* is never attempted.
C9_BadSpecifierFailsAtSelection ==
    (Duplicated /\ field.kind \notin {"str", "int", "list"})
    => /\ pc \notin {"lookup", "epoch", "update", "done"}
       /\ pc = "failed" => error = "select:68"

\* C10: the input container is never mutated, whatever the paths are.
C10_InputNeverMutated ==
    fs[inms] = input0

====
